---------------------------- MODULE Spec2Model ----------------------------
(***************************************************************************)
(* A model of the indexeddb crate: the request adapter, the transaction    *)
(* future and the object-store operations of src/src/request.rs,           *)
(* src/src/transaction.rs, src/src/object_store.rs and src/src/db.rs,      *)
(* running against the host's IndexedDB engine on a single-threaded host   *)
(* loop.                                                                   *)
(*                                                                         *)
(* Specification Spec is one program task working on an opened database    *)
(* with one object store: it creates transactions, issues add/get, and     *)
(* awaits done(); under SpecAbort it also awaits abort(), which runs the   *)
(* very code of done().  The Engine serves requests, commits and aborts    *)
(* transactions and delivers their events between the task's polls.  A     *)
(* wake-up only schedules the task: the Future contract does not promise   *)
(* that the task is polled before the Engine delivers its next event.      *)
(*                                                                         *)
(* Specification SpecOpen is one program task opening databases by name    *)
(* and version with an upgrade callback.  Specification SpecDb is that     *)
(* program also creating transactions on the handles it got and looking up *)
(* their object stores.                                                    *)
(***************************************************************************)
EXTENDS Integers, Sequences, FiniteSets, TLC

\* Bounds of the model.
MaxTx == 2
MaxReq == 2

TxIds == 1..MaxTx
ReqIds == 1..MaxReq

\* The keys and values the program passes to add and get.
Keys == {"k1", "k2"}
Vals == {"v1", "v2"}

Modes == {"Readonly", "ReadWrite"}

---------------------------------------------------------------------------
(* Host values (JsValue) and the serialization seam.                       *)

Undefined == [t |-> "undefined", v |-> ""]
Null == [t |-> "null", v |-> ""]

\* JsValue::from_serde of a string: a host string.
ToJs(x) == [t |-> "string", v |-> x]

\* JsValue::into_serde of a host value read back as a string.
FromJs(j) == j.v

IsUndefined(j) == j.t = "undefined"
IsNull(j) == j.t = "null"

\* Results the program sees.
OkUnit == [tag |-> "Ok", v |-> ""]
OkNone == [tag |-> "OkNone", v |-> ""]
OkSome(x) == [tag |-> "OkSome", v |-> x]
Err(e) == [tag |-> "Err", v |-> e]
NoResult == [tag |-> "none", v |-> ""]

\* Mutant of ObjectToOption: only null is taken for a missing value.
ObjectToOptionNullOnly(object) ==
    IF IsNull(object) THEN OkNone ELSE OkSome(FromJs(object))

\* ObjectStore::get, the mapping of the request's value.
ObjectToOption(object) ==
    IF IsUndefined(object) \/ IsNull(object)
    THEN OkNone
    ELSE OkSome(FromJs(object))

\* Mutant of AddWithKeyArgs: key and value swapped in the Engine call.
AddWithKeyArgsSwapped(key, value) == [key |-> ToJs(value), value |-> ToJs(key)]

\* ObjectStore::add, the arguments handed to add_with_key(&value, &key).
AddWithKeyArgs(key, value) == [key |-> ToJs(key), value |-> ToJs(value)]

\* ObjectStore::get, the key handed to the Engine's get.
GetArg(key) == ToJs(key)

---------------------------------------------------------------------------
(* TransactionFuture::poll, the result of a terminal state.                *)

\* Mutant of TransactionResult: an aborted transaction reported as done.
TransactionResultAbortOk(state) ==
    CASE state = "Completed" -> OkUnit
      [] state = "Error" -> Err("engine error")
      [] state = "Aborted" -> OkUnit

TransactionResult(state) ==
    CASE state = "Completed" -> OkUnit
      [] state = "Error" -> Err("engine error")
      [] state = "Aborted" -> Err("undefined")


---------------------------------------------------------------------------
(* State.                                                                  *)

VARIABLES
    store,        \* Engine: the committed records of the object store
    txn,          \* Engine: each transaction's mode, status, uncommitted writes
    abortQueued,  \* Engine: transactions whose abort event is still to fire
    request,      \* Engine requests and the adapter (IndexedDbRequest) of each
    nTx,          \* transactions created so far
    nReq,         \* requests submitted so far
    handle,       \* the Transaction handles the program holds
    txFuture,     \* the TransactionFuture of each done()/abort() call
    task,         \* the program's task: what it awaits, whether it was woken
    addsOf,       \* history: the (key, value) pairs add submitted, per transaction
    lastGet,      \* history: the get call that returned last, until the next call
    txResult,     \* history: what done()/abort() returned, per transaction
    okBefore,     \* history: the done() calls that had returned Ok when a transaction was created
    abortedBefore \* history: the abort() calls that had returned when a transaction was created

txVars == <<store, txn, abortQueued, request, nTx, nReq, handle, txFuture, task,
            addsOf, lastGet, txResult, okBefore, abortedBefore>>

NoRequest ==
    [tx |-> 0, kind |-> "none", key |-> Undefined, value |-> Undefined,
     readyState |-> "none", result |-> Undefined, error |-> "",
     hooked |-> FALSE, handler |-> FALSE, written |-> FALSE, live |-> FALSE]

\* A request whose adapter is gone and which the Engine has settled: nothing
\* reads it again.
Retired == [NoRequest EXCEPT !.readyState = "Done"]

NoTxn == [mode |-> "Readonly", status |-> "unused", writes |-> {}]

\* TransactionFuture::new: state Pending, no callback registered.
NoFuture == [call |-> "none", alive |-> FALSE, state |-> "Pending", hooked |-> FALSE]

NoGet == [tx |-> 0, key |-> "", res |-> NoResult, written |-> FALSE, live |-> FALSE]

Idle == [pc |-> "idle", on |-> 0, woken |-> FALSE]

\* The database after the open of the crate's tests: one store, no record.
InitTx ==
    /\ store = {}
    /\ txn = [t \in TxIds |-> NoTxn]
    /\ abortQueued = {}
    /\ request = [r \in ReqIds |-> NoRequest]
    /\ nTx = 0
    /\ nReq = 0
    /\ handle = {}
    /\ txFuture = [t \in TxIds |-> NoFuture]
    /\ task = Idle
    /\ addsOf = [t \in TxIds |-> {}]
    /\ lastGet = NoGet
    /\ txResult = [t \in TxIds |-> NoResult]
    /\ okBefore = [t \in TxIds |-> {}]
    /\ abortedBefore = [t \in TxIds |-> {}]

---------------------------------------------------------------------------
(* The Engine's view of the store.                                         *)

HasKey(records, key) == \E rec \in records : rec.key = key

\* The Engine's get: the value stored under key, undefined when there is none.
Lookup(records, key) ==
    IF HasKey(records, key)
    THEN (CHOOSE rec \in records : rec.key = key).value
    ELSE Undefined

\* What transaction t reads: the committed records and its own writes.
View(t) == store \cup txn[t].writes

Finished(t) == txn[t].status \in {"committed", "aborted"}

\* Transactions over the same stores run one after the other unless both only read.
Started(t) ==
    \A u \in 1..(t - 1) :
        (txn[u].mode = "ReadWrite" \/ txn[t].mode = "ReadWrite") => Finished(u)

PendingOf(t) == {r \in ReqIds : request[r].tx = t /\ request[r].readyState = "Pending"}

KeysAdded == {ToJs(kv[1]) : kv \in UNION {addsOf[t] : t \in TxIds}}

---------------------------------------------------------------------------
(* The program's operations.                                               *)

\* IndexedDb::transaction(mode): a transaction over every store of the database.
Transaction(mode) ==
    /\ task.pc = "idle"
    /\ nTx < MaxTx
    /\ lastGet' = NoGet
    /\ nTx' = nTx + 1
    /\ txn' = [txn EXCEPT ![nTx + 1] = [mode |-> mode, status |-> "active", writes |-> {}]]
    /\ handle' = handle \cup {nTx + 1}
    /\ okBefore' = [okBefore EXCEPT ![nTx + 1] =
            {u \in TxIds : txFuture[u].call = "done" /\ txResult[u] = OkUnit}]
    /\ abortedBefore' = [abortedBefore EXCEPT ![nTx + 1] =
            {u \in TxIds : txFuture[u].call = "abort" /\ txResult[u] # NoResult}]
    /\ UNCHANGED <<store, abortQueued, request, nReq, txFuture, task, addsOf,
                   txResult>>

\* IndexedDbRequest::new followed by the first poll: the request is Pending,
\* both callbacks are registered and the task waits.  hooked: the adapter owns
\* the two closures; handler: the request's onsuccess and onerror are set.
SubmitRequest(t, kind, key, value) ==
    /\ nReq' = nReq + 1
    /\ request' = [request EXCEPT ![nReq + 1] =
            [tx |-> t, kind |-> kind, key |-> key, value |-> value,
             readyState |-> "Pending", result |-> Undefined, error |-> "",
             hooked |-> TRUE, handler |-> TRUE, written |-> FALSE, live |-> FALSE]]
    /\ task' = [pc |-> "awaitReq", on |-> nReq + 1, woken |-> FALSE]

\* ObjectStore::add(key, value), up to its first suspension.  add_with_key
\* throws on a transaction that is over or read-only, and add unwraps it.
Add(t, k, v) ==
    /\ task.pc = "idle"
    /\ t \in handle
    /\ nReq < MaxReq
    /\ lastGet' = NoGet
    /\ IF txn[t].status # "active" \/ txn[t].mode = "Readonly"
       THEN /\ task' = [pc |-> "panicked", on |-> 0, woken |-> FALSE]
            /\ UNCHANGED <<nReq, request, addsOf>>
       ELSE /\ SubmitRequest(t, "add", AddWithKeyArgs(k, v).key, AddWithKeyArgs(k, v).value)
            /\ addsOf' = [addsOf EXCEPT ![t] = @ \cup {<<k, v>>}]
    /\ UNCHANGED <<store, txn, abortQueued, nTx, handle, txFuture, txResult,
                   okBefore, abortedBefore>>

\* Mutant of GetRejected: the Engine's error is taken for a missing value.
GetRejectedAsNone(error) == OkNone

\* ObjectStore::get, `self.inner.get(&key)?`: the Engine's error is returned.
GetRejected(error) == Err(error)

\* ObjectStore::get(key), up to its first suspension.  The Engine's get throws
\* on a transaction that is over, and get returns that error.
Get(t, k) ==
    /\ task.pc = "idle"
    /\ t \in handle
    /\ nReq < MaxReq
    /\ IF txn[t].status # "active"
       THEN /\ lastGet' = [tx |-> t, key |-> k, res |-> GetRejected("TransactionInactiveError"),
                            written |-> FALSE, live |-> FALSE]
            /\ UNCHANGED <<nReq, request, task>>
       ELSE /\ SubmitRequest(t, "get", GetArg(k), Undefined)
            /\ lastGet' = NoGet
    /\ UNCHANGED <<store, txn, abortQueued, nTx, handle, txFuture, addsOf, txResult,
                   okBefore, abortedBefore>>

\* IndexedDbRequest::poll on a request that is Done.
RequestResult(req) ==
    IF req.error = "" THEN [ok |-> TRUE, value |-> req.result, error |-> ""]
    ELSE [ok |-> FALSE, value |-> Undefined, error |-> req.error]

\* The task is polled while it awaits a request (get or add after the first poll).
PollRequest ==
    /\ task.pc = "awaitReq"
    /\ task.woken
    /\ LET r == task.on
           req == request[r]
           res == RequestResult(req)
       IN IF req.readyState = "Pending"
          THEN /\ request' = [request EXCEPT ![r].hooked = TRUE, ![r].handler = TRUE]
               /\ task' = [task EXCEPT !.woken = FALSE]
               /\ UNCHANGED lastGet
          ELSE /\ request' = [request EXCEPT ![r] = Retired]
               /\ task' = Idle
               /\ lastGet' =
                    IF req.kind = "get"
                    THEN [tx |-> req.tx, key |-> FromJs(req.key),
                          res |-> IF res.ok THEN ObjectToOption(res.value)
                                  ELSE Err(res.error),
                          written |-> req.written, live |-> req.live]
                    ELSE lastGet
    /\ UNCHANGED <<store, txn, abortQueued, nTx, nReq, handle, txFuture, addsOf, txResult,
                   okBefore, abortedBefore>>

\* The awaitable of a get or add is dropped before it completed: its closures
\* are released with it; the Engine keeps the request, and nothing unsets the
\* request's onsuccess and onerror.
DropRequest ==
    /\ task.pc = "awaitReq"
    /\ request' = [request EXCEPT ![task.on] =
            IF request[task.on].readyState = "Done" THEN Retired
            ELSE [request[task.on] EXCEPT !.hooked = FALSE]]
    /\ task' = Idle
    /\ UNCHANGED <<store, txn, abortQueued, nTx, nReq, handle, txFuture, addsOf, lastGet,
                   txResult, okBefore, abortedBefore>>

\* The body shared by Transaction::done and Transaction::abort:
\* TransactionFuture::new and the first poll, which finds state Pending and
\* registers the three callbacks.
AwaitTransaction(t, call) ==
    /\ task.pc = "idle"
    /\ t \in handle
    /\ handle' = handle \ {t}
    /\ lastGet' = NoGet
    /\ txFuture' = [txFuture EXCEPT ![t] =
            [call |-> call, alive |-> TRUE, state |-> "Pending", hooked |-> TRUE]]
    /\ task' = [pc |-> "awaitTx", on |-> t, woken |-> FALSE]
    /\ UNCHANGED <<store, txn, abortQueued, request, nTx, nReq, addsOf, txResult,
                   okBefore, abortedBefore>>

\* Transaction::done(self).
Done(t) == AwaitTransaction(t, "done")

\* Transaction::abort(self).
Abort(t) == AwaitTransaction(t, "abort")

\* TransactionFuture::poll after the first poll.
PollTransaction ==
    /\ task.pc = "awaitTx"
    /\ task.woken
    /\ LET t == task.on
       IN IF txFuture[t].state = "Pending"
          THEN /\ txFuture' = [txFuture EXCEPT ![t].hooked = TRUE]
               /\ task' = [task EXCEPT !.woken = FALSE]
               /\ UNCHANGED txResult
          ELSE /\ txResult' = [txResult EXCEPT ![t] = TransactionResult(txFuture[t].state)]
               /\ txFuture' = [txFuture EXCEPT ![t].alive = FALSE, ![t].hooked = FALSE]
               /\ task' = Idle
    /\ UNCHANGED <<store, txn, abortQueued, request, nTx, nReq, handle, addsOf, lastGet,
                   okBefore, abortedBefore>>

---------------------------------------------------------------------------
(* The callbacks TransactionFuture::poll registers.                        *)

\* Mutant of OnEvent: the abort callback records a completed transaction.
OnEventAbortCompletes(state, ev) ==
    CASE ev = "complete" -> "Completed"
      [] ev = "error" -> "Error"
      [] ev = "abort" -> "Completed"

\* on_complete, on_error, on_abort: each stores its own state, whatever the
\* state was.
OnEvent(state, ev) ==
    CASE ev = "complete" -> "Completed"
      [] ev = "error" -> "Error"
      [] ev = "abort" -> "Aborted"

\* The Engine fires ev at transaction t: the callback registered for it runs
\* if the TransactionFuture that owns it is alive.
FutureAfter(t, ev) ==
    IF txFuture[t].hooked
    THEN [txFuture[t] EXCEPT !.state = OnEvent(@, ev)]
    ELSE txFuture[t]

\* waker.wake(): the task is scheduled for a poll.
Wake(ran) == IF ran THEN [task EXCEPT !.woken = TRUE] ELSE task

---------------------------------------------------------------------------
(* The Engine.                                                             *)

\* The Engine settles a request: its adapter, if there still is one, will read
\* the outcome.
Settled(req, done) == IF req.hooked THEN done ELSE Retired

\* The oldest pending request of a transaction that has started.
Servable(r) ==
    /\ request[r].readyState = "Pending"
    /\ txn[request[r].tx].status = "active"
    /\ Started(request[r].tx)
    /\ \A q \in PendingOf(request[r].tx) : r <= q

\* A handler whose closure was released throws when the Engine calls it.
HandlerThrows(req) == req.handler /\ ~req.hooked

\* The Engine aborts transaction t on the event of its request r (error: that
\* request's error, "" after a success whose handler threw): the writes are
\* rolled back, the other pending requests fail with an error event, error
\* events bubble to the transaction, and the abort event is queued.
AbortTransaction(t, r, error) ==
    LET others == PendingOf(t) \ {r}
        errorFired == error # "" \/ others # {}
    IN /\ request' = [q \in ReqIds |->
                IF q = r
                THEN Settled(request[q],
                        [request[q] EXCEPT !.readyState = "Done",
                                           !.error = error, !.live = TRUE])
                ELSE IF q \in others
                THEN Settled(request[q],
                        [request[q] EXCEPT !.readyState = "Done", !.error = "AbortError"])
                ELSE request[q]]
       /\ txn' = [txn EXCEPT ![t].status = "aborted", ![t].writes = {}]
       /\ abortQueued' = abortQueued \cup {t}
       /\ txFuture' = [txFuture EXCEPT ![t] =
                IF errorFired THEN FutureAfter(t, "error") ELSE txFuture[t]]
       /\ task' = Wake((errorFired /\ txFuture[t].hooked)
                        \/ \E q \in others \cup {r} : request[q].hooked)

\* A get succeeds with the value under the key, or undefined.  When the
\* success handler throws, the Engine aborts the transaction.
ServeGet(r) ==
    /\ Servable(r)
    /\ request[r].kind = "get"
    /\ IF HandlerThrows(request[r])
       THEN /\ AbortTransaction(request[r].tx, r, "")
            /\ UNCHANGED <<store, nTx, nReq, handle, addsOf, lastGet, txResult,
                           okBefore, abortedBefore>>
       ELSE /\ request' = [request EXCEPT ![r] = Settled(request[r],
                    [request[r] EXCEPT !.readyState = "Done",
                                       !.result = Lookup(View(request[r].tx), request[r].key),
                                       !.written = request[r].key \in KeysAdded,
                                       !.live = TRUE])]
            /\ task' = Wake(request[r].hooked)
            /\ UNCHANGED <<store, txn, abortQueued, nTx, nReq, handle, txFuture, addsOf,
                           lastGet, txResult, okBefore, abortedBefore>>

\* An add under a key the transaction does not see succeeds with that key.
\* When the success handler throws, the Engine aborts the transaction.
ServeAdd(r) ==
    /\ Servable(r)
    /\ request[r].kind = "add"
    /\ ~HasKey(View(request[r].tx), request[r].key)
    /\ IF HandlerThrows(request[r])
       THEN /\ AbortTransaction(request[r].tx, r, "")
            /\ UNCHANGED <<store, nTx, nReq, handle, addsOf, lastGet, txResult,
                           okBefore, abortedBefore>>
       ELSE /\ request' = [request EXCEPT ![r] = Settled(request[r],
                    [request[r] EXCEPT !.readyState = "Done", !.result = request[r].key,
                                       !.live = TRUE])]
            /\ txn' = [txn EXCEPT ![request[r].tx].writes =
                    @ \cup {[key |-> request[r].key, value |-> request[r].value]}]
            /\ task' = Wake(request[r].hooked)
            /\ UNCHANGED <<store, abortQueued, nTx, nReq, handle, txFuture, addsOf,
                           lastGet, txResult, okBefore, abortedBefore>>

\* An add under a key that is taken fails: the error event fires at the
\* request and bubbles to the transaction, nobody prevents its default, so the
\* Engine aborts the transaction.
ServeAddFails(r) ==
    /\ Servable(r)
    /\ request[r].kind = "add"
    /\ HasKey(View(request[r].tx), request[r].key)
    /\ AbortTransaction(request[r].tx, r, "ConstraintError")
    /\ UNCHANGED <<store, nTx, nReq, handle, addsOf, lastGet, txResult, okBefore,
                   abortedBefore>>

\* A started transaction with no pending request commits once control is back
\* with the host loop: its writes become visible and complete fires.
EngineComplete(t) ==
    /\ txn[t].status = "active"
    /\ Started(t)
    /\ PendingOf(t) = {}
    /\ txn' = [txn EXCEPT ![t].status = "committed", ![t].writes = {}]
    /\ store' = store \cup txn[t].writes
    /\ txFuture' = [txFuture EXCEPT ![t] = FutureAfter(t, "complete")]
    /\ task' = Wake(txFuture[t].hooked)
    /\ UNCHANGED <<abortQueued, request, nTx, nReq, handle, addsOf, lastGet, txResult,
                   okBefore, abortedBefore>>

\* The queued abort event of an aborted transaction fires.
EngineFireAbort(t) ==
    /\ t \in abortQueued
    /\ abortQueued' = abortQueued \ {t}
    /\ txFuture' = [txFuture EXCEPT ![t] = FutureAfter(t, "abort")]
    /\ task' = Wake(txFuture[t].hooked)
    /\ UNCHANGED <<store, txn, request, nTx, nReq, handle, addsOf, lastGet, txResult,
                   okBefore, abortedBefore>>

---------------------------------------------------------------------------
(* Opening a database: IndexedDb::open and IdbOpenDbRequest.               *)

\* Bounds of the open model.
MaxVersion == 2
MaxOpens == 3
MaxDbOpens == 2

Names == {"test", "test2"}
StoreNames == {"contact", "test"}
Versions == 0..MaxVersion

\* KeyPath: None, Single(path), Multi(paths).
KeyPathNone == [kind |-> "None", paths |-> <<>>]
KeyPathSingle(path) == [kind |-> "Single", paths |-> <<path>>]
KeyPathMulti(paths) == [kind |-> "Multi", paths |-> paths]

\* The host values a key path is handed over as: null, a string, an array.
JsKeyPathNull == [t |-> "null", v |-> <<>>]
JsKeyPathString(path) == [t |-> "string", v |-> <<path>>]
JsKeyPathArray(paths) == [t |-> "array", v |-> paths]

\* impl From<KeyPath> for JsValue.
KeyPathIntoJs(key_path) ==
    CASE key_path.kind = "None" -> JsKeyPathNull
      [] key_path.kind = "Single" -> JsKeyPathString(key_path.paths[1])
      [] key_path.kind = "Multi" -> JsKeyPathArray(key_path.paths)

\* Mutant of KeyPathFromJs: an array of one string is read as a single path.
KeyPathFromJsFlatten(val) ==
    IF val.t = "null" \/ val.t = "undefined" THEN KeyPathNone
    ELSE IF val.t = "string" \/ Len(val.v) = 1 THEN KeyPathSingle(val.v[1])
    ELSE KeyPathMulti(val.v)

\* impl From<JsValue> for KeyPath.
KeyPathFromJs(val) ==
    IF val.t = "null" \/ val.t = "undefined" THEN KeyPathNone
    ELSE IF val.t = "string" THEN KeyPathSingle(val.v[1])
    ELSE KeyPathMulti(val.v)

\* A call of create_object_store the way the crate's tests and demo write it:
\* the name, and the key path and auto-increment flag the caller wants.
Create(name, key_path, auto_increment) ==
    [op |-> "create", name |-> name, key_path |-> key_path,
     auto_increment |-> auto_increment]

\* A call of delete() on the store handle that the callback's
\* create_object_store(name, ..) returned.
Delete(name) ==
    [op |-> "delete", name |-> name, key_path |-> KeyPathNone, auto_increment |-> FALSE]

\* The upgrade callbacks of the model: what the callback creates, in order.
Callbacks ==
    { <<>>,
      <<Create("test", KeyPathNone, FALSE)>>,
      <<Create("contact", KeyPathSingle("id"), TRUE)>>,
      <<Create("test", KeyPathNone, FALSE), Create("test", KeyPathSingle("test"), TRUE)>>,
      <<Create("test", KeyPathNone, FALSE),
        Create("contact", KeyPathMulti(<<"test", "test2">>), FALSE)>> }

\* The upgrade callbacks that also delete stores they created.
DeleteCallbacks ==
    { <<Create("test", KeyPathNone, FALSE)>>,
      <<Create("contact", KeyPathNone, FALSE)>>,
      <<Create("test", KeyPathNone, FALSE), Delete("test")>>,
      <<Create("test", KeyPathNone, FALSE), Create("contact", KeyPathNone, FALSE),
        Delete("contact")>>,
      <<Create("test", KeyPathNone, FALSE), Create("contact", KeyPathNone, FALSE),
        Delete("test"), Create("test", KeyPathNone, FALSE)>> }

\* `x as u32` of an integral host number: the cast saturates, at 0 and at
\* u32::MAX.  Every number of this model is below 2^31, under the upper end.
F64ToU32(x) == IF x < 0 THEN 0 ELSE x

\* `x as u64` of an integral host number: the cast saturates, at 0 and at
\* u64::MAX.
F64ToU64(x) == IF x < 0 THEN 0 ELSE x

VARIABLES
    dbs,          \* Engine: each database's stored version (0: none) and stores
    handles,      \* the IndexedDb handles the program holds, a connection each
    openReq,      \* the Engine's open request and its adapter (IdbOpenDbRequest)
    openTask,     \* the program's task
    nOpens,       \* open calls so far
    lastOpen,     \* history: the last open call, what its callback got, its result
    dbTx          \* the transaction the program created last from a handle

openVars == <<dbs, handles, openReq, openTask, nOpens, lastOpen, dbTx>>

NoOpenReq ==
    [readyState |-> "none", name |-> "", version |-> 0, hasResult |-> FALSE,
     error |-> "", onupgradeneeded |-> FALSE, callback |-> <<>>, hooked |-> FALSE,
     upgraded |-> FALSE, settled |-> FALSE]

NoOpenResult == [tag |-> "none", name |-> "", version |-> 0]

NoOpen ==
    [name |-> "", version |-> 0, stored |-> 0, calls |-> <<>>, creates |-> <<>>,
     fired |-> "none", res |-> NoOpenResult]

OpenIdle == [pc |-> "idle", woken |-> FALSE]

NoLookup == [name |-> "", tag |-> "none", v |-> "", live |-> FALSE]

\* No transaction: db is the database of the handle transaction was called on,
\* names its inventory at the call, scope the stores the Engine's transaction
\* spans, lookup the last object_store call.
NoDbTx ==
    [db |-> "", mode |-> "none", names |-> {}, scope |-> {}, status |-> "none",
     finished |-> FALSE, lookup |-> NoLookup]

InitOpen ==
    /\ dbs = [n \in Names |-> [version |-> 0, stores |-> {}]]
    /\ handles = {}
    /\ openReq = NoOpenReq
    /\ openTask = OpenIdle
    /\ nOpens = 0
    /\ lastOpen = NoOpen
    /\ dbTx = NoDbTx

\* Mutant of VersionIsZero: the check of the version is left out.
VersionIsZeroNever(version) == FALSE

\* IndexedDb::open and open: `if version == 0 { panic!(..) }`.
VersionIsZero(version) == version = 0

\* Mutant of OpenArgs: the version is not handed on, a first version is asked for.
OpenArgsFirstVersion(name, version) == [name |-> name, version |-> 1]

\* IndexedDb::open: factory().open_with_u32(name, version).
OpenArgs(name, version) == [name |-> name, version |-> version]

\* The Engine throws on a version of 0, and may throw for the origin's rules.
EngineRejects(args) == IF args.version = 0 THEN {TRUE} ELSE {FALSE, TRUE}

\* IdbOpenDbRequest::new registers the upgrade callback; the first poll finds
\* the request Pending, registers the success and error callbacks and waits.
NewOpenRequest(args, cb) ==
    [readyState |-> "Pending", name |-> args.name, version |-> args.version,
     hasResult |-> FALSE, error |-> "", onupgradeneeded |-> TRUE, callback |-> cb,
     hooked |-> TRUE, upgraded |-> FALSE, settled |-> FALSE]

\* IndexedDb::open(name, version, on_upgrade_needed), up to its first suspension.
Open(name, version, cb) ==
    /\ openTask.pc = "idle"
    /\ nOpens < MaxOpens
    /\ nOpens' = nOpens + 1
    /\ IF VersionIsZero(version)
       THEN /\ openTask' = [pc |-> "panicked", woken |-> FALSE]
            /\ lastOpen' = [NoOpen EXCEPT !.name = name, !.version = version,
                                          !.stored = dbs[name].version]
            /\ UNCHANGED openReq
       ELSE \E rejected \in EngineRejects(OpenArgs(name, version)) :
            IF rejected
            THEN /\ lastOpen' = [NoOpen EXCEPT !.name = name, !.version = version,
                        !.stored = dbs[name].version,
                        !.res = [tag |-> "Err", name |-> "rejected", version |-> 0]]
                 /\ UNCHANGED <<openReq, openTask>>
            ELSE /\ openReq' = NewOpenRequest(OpenArgs(name, version), cb)
                 /\ openTask' = [pc |-> "awaitOpen", woken |-> FALSE]
                 /\ lastOpen' = [NoOpen EXCEPT !.name = name, !.version = version,
                                               !.stored = dbs[name].version]
    /\ dbTx' = NoDbTx
    /\ UNCHANGED <<dbs, handles>>

\* IndexedDb::object_store_names: the names of the stores of the database.
ObjectStoreNames(stores) == {st.name : st \in stores}

\* Mutant of StoreExists: no store is found.
StoreExistsNever(stores, name) == FALSE

\* DbDuringUpgrade::store_exists.
StoreExists(stores, name) == \E st \in ObjectStoreNames(stores) : st = name

\* format!("an object store called \"{}\" already exists", name).
AlreadyExistsMessage(name) == <<"an object store called \"", name, "\" already exists">>

\* DbDuringUpgrade::create_object_store, the parameters it hands to the
\* Engine: the key path KeyPath::None and no auto-increment.
Parameters == [key_path |-> KeyPathIntoJs(KeyPathNone), auto_increment |-> FALSE]

\* The Engine's createObjectStore in an upgrade: a store with these parameters.
EngineCreateObjectStore(stores, name, parameters) ==
    stores \cup {[name |-> name, keyPath |-> parameters.key_path,
                   autoIncrement |-> parameters.auto_increment]}

NoStore == [name |-> "", keyPath |-> JsKeyPathNull, autoIncrement |-> FALSE]

\* DbDuringUpgrade::create_object_store(name): an error when the store
\* exists, else the Engine creates it and its handle is returned.
CreateObjectStore(stores, name) ==
    IF StoreExists(stores, name)
    THEN [ok |-> FALSE, err |-> AlreadyExistsMessage(name), stores |-> stores,
          store |-> NoStore]
    ELSE LET created == EngineCreateObjectStore(stores, name, Parameters)
         IN [ok |-> TRUE, err |-> <<>>, stores |-> created,
             store |-> CHOOSE st \in created : st.name = name]

\* ObjectStoreDuringUpgrade::key_path and ObjectStoreDuringUpgrade::auto_increment.
StoreKeyPath(st) == KeyPathFromJs(st.keyPath)
StoreAutoIncrement(st) == st.autoIncrement

\* The Engine's deleteObjectStore in an upgrade: it throws when there is no
\* store of that name, else the store is removed.
EngineDeleteObjectStore(stores, name) ==
    IF name \notin ObjectStoreNames(stores)
    THEN [ok |-> FALSE, err |-> <<"NotFoundError">>, stores |-> stores]
    ELSE [ok |-> TRUE, err |-> <<>>, stores |-> {st \in stores : st.name # name}]

\* Mutant of DeleteObjectStore: every store is removed.
DeleteObjectStoreAll(stores, name) ==
    [EngineDeleteObjectStore(stores, name) EXCEPT !.stores = {}]

\* DbDuringUpgrade::delete_object_store(name): the Engine's result.
DeleteObjectStore(stores, name) == EngineDeleteObjectStore(stores, name)

\* ObjectStoreDuringUpgrade::name.
StoreName(st) == st.name

\* ObjectStoreDuringUpgrade::delete(self).
StoreDelete(stores, st) == DeleteObjectStore(stores, StoreName(st))

\* The callback holds the handle of a store: its last call for that name that
\* succeeded was a create.
Holds(log, name) ==
    LET done == {i \in 1..Len(log) : log[i].call.name = name /\ log[i].ok}
    IN /\ done # {}
       /\ log[CHOOSE i \in done : \A j \in done : j <= i].call.op = "create"

\* The program's upgrade callback: it makes its calls in order and looks at
\* what each one returned; it calls delete() on the handles it holds.
RECURSIVE RunCallback(_, _, _)
RunCallback(stores, todo, log) ==
    IF todo = <<>> THEN [stores |-> stores, log |-> log]
    ELSE IF Head(todo).op = "delete"
    THEN IF ~Holds(log, Head(todo).name) THEN RunCallback(stores, Tail(todo), log)
         ELSE LET call == Head(todo)
                  got == StoreDelete(stores, CHOOSE st \in stores : st.name = call.name)
              IN RunCallback(got.stores, Tail(todo),
                    Append(log, [call |-> call, existed |-> call.name \in ObjectStoreNames(stores),
                                 before |-> ObjectStoreNames(stores),
                                 ok |-> got.ok, err |-> got.err,
                                 key_path |-> KeyPathNone, auto_increment |-> FALSE,
                                 exists |-> StoreExists(got.stores, call.name),
                                 after |-> ObjectStoreNames(got.stores)]))
    ELSE LET call == Head(todo)
             got == CreateObjectStore(stores, call.name)
         IN RunCallback(got.stores, Tail(todo),
                Append(log, [call |-> call, existed |-> call.name \in ObjectStoreNames(stores),
                             before |-> ObjectStoreNames(stores),
                             ok |-> got.ok, err |-> got.err,
                             key_path |-> StoreKeyPath(got.store),
                             auto_increment |-> StoreAutoIncrement(got.store),
                             exists |-> StoreExists(got.stores, call.name),
                             after |-> ObjectStoreNames(got.stores)]))

\* Mutant of EventOldVersion: the event's new version is read.
EventNewVersion(event) == F64ToU32(event.newVersion)

\* The upgrade closure of IdbOpenDbRequest::new: event.old_version() as u32.
EventOldVersion(event) == F64ToU32(event.oldVersion)

\* The Engine starts the upgrade of a database whose stored version is below
\* the requested one, once no other connection to it is open: the request gets
\* its result, upgradeneeded fires and the registered closure runs the callback.
EngineUpgradeNeeded ==
    /\ openReq.readyState = "Pending"
    /\ dbs[openReq.name].version < openReq.version
    /\ \A h \in handles : h.name # openReq.name
    /\ LET event == [oldVersion |-> dbs[openReq.name].version,
                     newVersion |-> openReq.version]
           ran == openReq.onupgradeneeded
           upgrade == RunCallback(dbs[openReq.name].stores, openReq.callback, <<>>)
       IN /\ openReq' = [openReq EXCEPT !.readyState = "Done", !.hasResult = TRUE,
                                        !.upgraded = TRUE]
          /\ dbs' = [dbs EXCEPT ![openReq.name] =
                [version |-> openReq.version,
                 stores |-> IF ran THEN upgrade.stores ELSE @.stores]]
          /\ lastOpen' = IF ran
                THEN [lastOpen EXCEPT !.calls = Append(@, EventOldVersion(event)),
                                      !.creates = upgrade.log]
                ELSE lastOpen
    /\ UNCHANGED <<handles, openTask, nOpens, dbTx>>

\* The Engine opened the database at the requested version: success fires.
EngineOpenSuccess ==
    /\ openReq.readyState # "none"
    /\ ~openReq.settled
    /\ dbs[openReq.name].version = openReq.version
    /\ openReq' = [openReq EXCEPT !.readyState = "Done", !.hasResult = TRUE,
                                  !.settled = TRUE]
    /\ openTask' = IF openReq.hooked THEN [openTask EXCEPT !.woken = TRUE] ELSE openTask
    /\ lastOpen' = [lastOpen EXCEPT !.fired = "success"]
    /\ UNCHANGED <<dbs, handles, nOpens, dbTx>>

\* The stored version is above the requested one: error fires.
EngineOpenError ==
    /\ openReq.readyState = "Pending"
    /\ dbs[openReq.name].version > openReq.version
    /\ openReq' = [openReq EXCEPT !.readyState = "Done", !.error = "VersionError",
                                  !.settled = TRUE]
    /\ openTask' = IF openReq.hooked THEN [openTask EXCEPT !.woken = TRUE] ELSE openTask
    /\ lastOpen' = [lastOpen EXCEPT !.fired = "error"]
    /\ UNCHANGED <<dbs, handles, nOpens, dbTx>>

\* IndexedDb::name and IndexedDb::version of the handle over a connection.
DbHandle(conn) == [tag |-> "Ok", name |-> conn.name, version |-> F64ToU64(conn.version)]

\* Mutant of OpenPollResult: a request that is Done is taken for a success.
OpenPollResultAlwaysOk(req) ==
    DbHandle([name |-> req.name, version |-> req.version])

\* IdbOpenDbRequest::poll on a request that is Done: the database of its
\* result, or its error.
OpenPollResult(req) ==
    IF req.hasResult
    THEN DbHandle([name |-> req.name, version |-> req.version])
    ELSE [tag |-> "Err", name |-> req.error, version |-> 0]

\* IdbOpenDbRequest::poll after the first poll.
PollOpen ==
    /\ openTask.pc = "awaitOpen"
    /\ openTask.woken
    /\ IF openReq.readyState = "Pending"
       THEN /\ openReq' = [openReq EXCEPT !.hooked = TRUE]
            /\ openTask' = [openTask EXCEPT !.woken = FALSE]
            /\ UNCHANGED <<handles, lastOpen>>
       ELSE /\ openReq' = NoOpenReq
            /\ openTask' = OpenIdle
            /\ lastOpen' = [lastOpen EXCEPT !.res = OpenPollResult(openReq)]
            /\ handles' =
                    IF openReq.hasResult
                    THEN handles \cup {[id |-> nOpens, name |-> openReq.name,
                                        version |-> openReq.version]}
                    ELSE handles
    /\ UNCHANGED <<dbs, nOpens, dbTx>>

\* The program drops an IndexedDb handle: its connection closes.
DropDb(h) ==
    /\ openTask.pc = "idle"
    /\ h \in handles
    /\ handles' = handles \ {h}
    /\ dbTx' = IF dbTx.db = h.name THEN NoDbTx ELSE dbTx
    /\ UNCHANGED <<dbs, openReq, openTask, nOpens, lastOpen>>

\* Mutant of TransactionStoreNames: the transaction is asked for one store.
TransactionStoreNamesFirst(stores) ==
    IF stores = {} THEN {}
    ELSE {CHOOSE n \in ObjectStoreNames(stores) :
            \A m \in ObjectStoreNames(stores) : n = "contact" \/ m # "contact"}

\* IndexedDb::transaction, the store names it hands to the Engine:
\* self.inner.object_store_names().
TransactionStoreNames(stores) == ObjectStoreNames(stores)

\* The Engine's transaction(names, mode) throws when names is empty, else the
\* transaction spans these stores.
EngineTransaction(names, mode) ==
    [rejected |-> names = {}, scope |-> names, mode |-> mode]

\* IndexedDb::transaction(mode): the Engine's result is unwrapped.
DbTransaction(h, mode) ==
    /\ openTask.pc = "idle"
    /\ h \in handles
    /\ LET names == TransactionStoreNames(dbs[h.name].stores)
           inner == EngineTransaction(names, mode)
       IN IF inner.rejected
          THEN /\ openTask' = [pc |-> "panicked", woken |-> FALSE]
               /\ dbTx' = [NoDbTx EXCEPT !.db = h.name, !.mode = mode,
                                          !.names = ObjectStoreNames(dbs[h.name].stores),
                                          !.status = "rejected"]
          ELSE /\ dbTx' = [NoDbTx EXCEPT !.db = h.name, !.mode = inner.mode,
                                          !.names = ObjectStoreNames(dbs[h.name].stores),
                                          !.scope = inner.scope,
                                          !.status = "active"]
               /\ UNCHANGED openTask
    /\ UNCHANGED <<dbs, handles, openReq, nOpens, lastOpen>>

\* The Engine's objectStore(name) on a transaction: it throws on a finished
\* transaction and on a name outside the transaction's scope.
EngineObjectStore(tx, name) ==
    IF tx.finished THEN Err("InvalidStateError")
    ELSE IF name \notin tx.scope THEN Err("NotFoundError")
    ELSE [tag |-> "Ok", v |-> name]

\* Mutant of ObjectStore: a store that is missing is created.
ObjectStoreOrCreate(tx, stores, name) ==
    [res |-> [tag |-> "Ok", v |-> name], stores |-> CreateObjectStore(stores, name).stores]

\* Mutant of ObjectStore: the Engine's error is dropped, a handle is returned.
ObjectStoreAnyName(tx, stores, name) ==
    [res |-> [tag |-> "Ok", v |-> name], stores |-> stores]

\* Transaction::object_store(name): the Engine's store, or its error; the
\* database is left as it is.
ObjectStore(tx, stores, name) ==
    [res |-> EngineObjectStore(tx, name), stores |-> stores]

\* The program calls object_store(name) on the transaction it created last.
TxObjectStore(name) ==
    /\ openTask.pc = "idle"
    /\ dbTx.status = "active"
    /\ LET got == ObjectStore(dbTx, dbs[dbTx.db].stores, name)
       IN /\ dbTx' = [dbTx EXCEPT !.lookup =
                    [name |-> name, tag |-> got.res.tag, v |-> got.res.v,
                     live |-> ~dbTx.finished]]
          /\ dbs' = [dbs EXCEPT ![dbTx.db].stores = got.stores]
    /\ UNCHANGED <<handles, openReq, openTask, nOpens, lastOpen>>

\* A transaction with no pending request finishes once control is back with
\* the host loop.
EngineFinishTx ==
    /\ dbTx.status = "active"
    /\ ~dbTx.finished
    /\ dbTx' = [dbTx EXCEPT !.finished = TRUE]
    /\ UNCHANGED <<dbs, handles, openReq, openTask, nOpens, lastOpen>>

---------------------------------------------------------------------------
(* The KeyPath conversions on their own: a key path is handed to the host  *)
(* and read back, as create_object_store and key_path() do.                *)

\* Bound of the key paths: the longest Multi.
MaxPaths == 3

Paths == {"", "a", "id"}

RECURSIVE SeqsUpTo(_, _)
SeqsUpTo(S, n) ==
    IF n = 0 THEN {<<>>}
    ELSE LET shorter == SeqsUpTo(S, n - 1)
         IN shorter \cup {Append(q, x) : q \in shorter, x \in S}

\* Every KeyPath value up to the bound.
KeyPaths ==
    {KeyPathNone} \cup {KeyPathSingle(p) : p \in Paths}
        \cup {KeyPathMulti(ps) : ps \in SeqsUpTo(Paths, MaxPaths)}

VARIABLES
    keyPathTrip   \* a key path, the host value made of it, the key path read back

NoTrip == [pc |-> "none", key_path |-> KeyPathNone, val |-> JsKeyPathNull,
           back |-> KeyPathNone]

\* let val: JsValue = key_path.into().
KeyPathInto ==
    /\ keyPathTrip.pc = "key_path"
    /\ keyPathTrip' = [keyPathTrip EXCEPT !.pc = "val",
                                          !.val = KeyPathIntoJs(keyPathTrip.key_path)]

\* let back: KeyPath = val.into().
KeyPathFrom ==
    /\ keyPathTrip.pc = "val"
    /\ keyPathTrip' = [keyPathTrip EXCEPT !.pc = "back",
                                          !.back = KeyPathFromJs(keyPathTrip.val)]

---------------------------------------------------------------------------
(* One adapter statement by statement: IndexedDbRequest, IdbOpenDbRequest  *)
(* and TransactionFuture, their callback slots, the closures they own and  *)
(* the handlers set on the Engine's object.  The task may be polled at any *)
(* time and from any context, not only when it was woken.                  *)

\* Bound of the adapter model: the polls that find the adapter pending.
MaxPolls == 3

Kinds == {"request", "open", "transaction"}
AllEvents == {"success", "error", "upgradeneeded", "complete", "abort"}

\* The contexts (wakers) a poll may come with.
Wakers == {1, 2}

\* A poll makes a closure per callback; an open request has one more.
MaxClosures == 3 * MaxPolls + 1
ClosureIds == 1..MaxClosures

NoClosure == [state |-> "none", waker |-> 0]

\* A result or error slot of the Engine's request: empty, or holding a value.
NoSlot == [has |-> FALSE, v |-> ""]
Slot(v) == [has |-> TRUE, v |-> v]

VARIABLES
    innerReq,     \* Engine: the request (or transaction) the adapter wraps: `inner`
    adapter,      \* the adapter: its callback slots, its state, where its poll stands
    closures,     \* the closures made so far: live or released, and whom they wake
    pollTask      \* the contexts woken, and what the last poll returned

adapterVars == <<innerReq, adapter, closures, pollTask>>

NoHandlers == [e \in AllEvents |-> 0]

NoInner ==
    [readyState |-> "none", result |-> NoSlot, error |-> NoSlot, on |-> NoHandlers,
     left |-> {}]

NoAdapter ==
    [kind |-> "none", alive |-> FALSE, slot |-> NoHandlers, state |-> "Pending",
     pc |-> "idle", at |-> 0, waker |-> 0, fresh |-> 0, polls |-> 0]

NoPoll == [woken |-> {}, cx |-> 0, ret |-> "none", v |-> "", fired |-> "none",
           threw |-> FALSE]

\* No adapter exists.
InitAdapterNone ==
    /\ innerReq = NoInner
    /\ adapter = NoAdapter
    /\ closures = [c \in ClosureIds |-> NoClosure]
    /\ pollTask = NoPoll

\* The events the Engine fires at the object, and what is left to fire after
\* one of them: upgradeneeded is followed by success, a transaction's error by
\* its abort.
EngineEvents(kind) ==
    CASE kind = "request" -> {"success", "error"}
      [] kind = "open" -> {"upgradeneeded", "success", "error"}
      [] kind = "transaction" -> {"complete", "error", "abort"}

LeftAfter(kind, ev) ==
    IF kind = "open" /\ ev = "upgradeneeded" THEN {"success"}
    ELSE IF kind = "transaction" /\ ev = "error" THEN {"abort"}
    ELSE {}

\* What an event carries: the result of a success, the error of an error.
EventValues(kind, ev) ==
    CASE kind = "request" /\ ev = "success" -> {"undefined", "v1"}
      [] kind = "request" /\ ev = "error" -> {"ConstraintError"}
      [] kind = "open" /\ ev = "error" -> {"VersionError"}
      [] kind = "open" -> {"db"}
      [] OTHER -> {""}

\* The adapter after construction: IndexedDbRequest::new and
\* TransactionFuture::new leave every slot empty; IdbOpenDbRequest::new has
\* made the upgrade closure, closure 1, and registered it.
InitAdapter ==
    \E kind \in Kinds :
        LET on == [e \in AllEvents |->
                        IF kind = "open" /\ e = "upgradeneeded" THEN 1 ELSE 0]
        IN /\ innerReq = [readyState |-> IF kind = "transaction" THEN "none" ELSE "Pending",
                          result |-> NoSlot, error |-> NoSlot, on |-> on,
                          left |-> EngineEvents(kind)]
           /\ adapter = [NoAdapter EXCEPT !.kind = kind, !.alive = TRUE, !.slot = on]
           /\ closures = [c \in ClosureIds |->
                            IF kind = "open" /\ c = 1
                            THEN [state |-> "live", waker |-> 0] ELSE NoClosure]
           /\ pollTask = NoPoll

\* Mutant of Registered: the error callback is left out.
RegisteredNoError(kind) ==
    IF kind = "transaction" THEN <<"complete", "abort">> ELSE <<"success">>

\* The callbacks a poll registers while the adapter is pending, in order.
Registered(kind) ==
    IF kind = "transaction" THEN <<"complete", "error", "abort">>
    ELSE <<"success", "error">>

\* Dropping closures: each one that is live is released.
Release(cl, ids) ==
    [c \in ClosureIds |->
        IF c \in ids /\ cl[c].state = "live" THEN [cl[c] EXCEPT !.state = "released"]
        ELSE cl[c]]

Made(cl) == Cardinality({c \in ClosureIds : cl[c].state # "none"})

\* Mutant of SetOn: the slot is assigned first, the Engine's handler second.
SetOnSlotFirst(stmt, b, ev, c) ==
    IF stmt = 1
    THEN [b EXCEPT !.slot[ev] = c, !.closures = Release(b.closures, {b.slot[ev]})]
    ELSE [b EXCEPT !.inner.on[ev] = c]

\* set_onsuccsess, set_onerror, set_onupgradeneeded, set_on_complete,
\* set_on_error, set_on_abort: the first statement sets the Engine's handler to
\* the new closure, the second assigns the closure to the slot, which drops the
\* closure the slot held.
SetOn(stmt, b, ev, c) ==
    IF stmt = 1
    THEN [b EXCEPT !.inner.on[ev] = c]
    ELSE [b EXCEPT !.slot[ev] = c, !.closures = Release(b.closures, {b.slot[ev]})]

\* Mutant of PollWaker: the waker of an earlier poll is kept.
PollWakerFirst(cx, held) == IF held # 0 THEN held ELSE cx

\* let waker = cx.waker().to_owned(): the waker of this poll.
PollWaker(cx, held) == cx

\* Mutant of PollDone: a request that is Done is taken for a success.
PollDoneAlwaysOk(in) == [ret |-> "Ok", v |-> in.result.v]

\* poll on ReadyState::Done: the result if there is one, else the error, and
\* unreachable!() when there is neither.
PollDone(in) ==
    IF in.result.has THEN [ret |-> "Ok", v |-> in.result.v]
    ELSE IF in.error.has THEN [ret |-> "Err", v |-> in.error.v]
    ELSE [ret |-> "panicked", v |-> "internal error polling open db request"]

\* TransactionFuture::poll on a state other than Pending.
PollTransactionDone(state) ==
    [ret |-> IF TransactionResult(state).tag = "Ok" THEN "Ok" ELSE "Err",
     v |-> TransactionResult(state).v]

IsReady(ad, in) ==
    IF ad.kind = "transaction" THEN ad.state # "Pending" ELSE in.readyState = "Done"

\* poll, up to its first statement that registers: a poll that finds the
\* adapter ready returns, and the await drops the adapter with its closures;
\* a poll that finds it pending makes the first closure.
PollStart(w) ==
    /\ adapter.alive
    /\ adapter.pc = "idle"
    /\ IF IsReady(adapter, innerReq)
       THEN LET got == IF adapter.kind = "transaction"
                       THEN PollTransactionDone(adapter.state)
                       ELSE PollDone(innerReq)
            IN /\ pollTask' = [pollTask EXCEPT !.woken = @ \ {w}, !.cx = w,
                                               !.ret = got.ret, !.v = got.v]
               /\ adapter' = [adapter EXCEPT !.alive = FALSE, !.slot = NoHandlers]
               /\ closures' = Release(closures, {adapter.slot[e] : e \in AllEvents})
       ELSE /\ adapter.polls < MaxPolls
            /\ pollTask' = [pollTask EXCEPT !.woken = @ \ {w}, !.cx = w, !.ret = "none"]
            /\ adapter' = [adapter EXCEPT !.pc = "first", !.at = 1,
                                          !.waker = PollWaker(w, adapter.waker),
                                          !.fresh = Made(closures) + 1,
                                          !.polls = @ + 1]
            /\ closures' = [closures EXCEPT ![Made(closures) + 1] =
                                [state |-> "live", waker |-> PollWaker(w, adapter.waker)]]
    /\ UNCHANGED innerReq

\* The executor polls the task from some context, woken or not.
Poll(w) == PollStart(w)

\* The executor polls the task in a context that was woken.
PollWoken == \E w \in pollTask.woken : PollStart(w)

\* The first statement of the setter the poll is in.
SetOnFirst ==
    /\ adapter.pc = "first"
    /\ LET ev == Registered(adapter.kind)[adapter.at]
           b == SetOn(1, [inner |-> innerReq, slot |-> adapter.slot, closures |-> closures],
                      ev, adapter.fresh)
       IN /\ innerReq' = b.inner
          /\ adapter' = [adapter EXCEPT !.slot = b.slot, !.pc = "second"]
          /\ closures' = b.closures
    /\ UNCHANGED pollTask

\* The second statement of the setter the poll is in; then the poll makes the
\* next closure, or returns Pending after the last one.
SetOnSecond ==
    /\ adapter.pc = "second"
    /\ LET ev == Registered(adapter.kind)[adapter.at]
           b == SetOn(2, [inner |-> innerReq, slot |-> adapter.slot, closures |-> closures],
                      ev, adapter.fresh)
           last == adapter.at = Len(Registered(adapter.kind))
       IN /\ innerReq' = b.inner
          /\ adapter' = [adapter EXCEPT !.slot = b.slot,
                                        !.pc = IF last THEN "idle" ELSE "first",
                                        !.at = IF last THEN 0 ELSE @ + 1,
                                        !.fresh = IF last THEN 0 ELSE Made(b.closures) + 1]
          /\ closures' = IF last THEN b.closures
                         ELSE [b.closures EXCEPT ![Made(b.closures) + 1] =
                                    [state |-> "live", waker |-> adapter.waker]]
          /\ pollTask' = IF last THEN [pollTask EXCEPT !.ret = "Pending"] ELSE pollTask

\* The awaitable is dropped before it completed: the adapter's closures are
\* released with it; nothing unsets the Engine's handlers.
DropAdapter ==
    /\ adapter.alive
    /\ adapter.pc = "idle"
    /\ adapter' = [adapter EXCEPT !.alive = FALSE, !.slot = NoHandlers]
    /\ closures' = Release(closures, {adapter.slot[e] : e \in AllEvents})
    /\ UNCHANGED <<innerReq, pollTask>>

\* The Engine fires an event at the object, between two runs of the program's
\* code: a request is Done with its result or its error, and the handler set
\* for the event is called.  A live closure runs: a transaction's callback
\* stores its state, and every callback but the upgrade one wakes its waker.
\* A released closure throws.
EngineFire(ev, v) ==
    /\ adapter.kind # "none"
    /\ adapter.pc = "idle"
    /\ ev \in innerReq.left
    /\ LET h == innerReq.on[ev]
           runs == h # 0 /\ closures[h].state = "live"
           throws == h # 0 /\ closures[h].state = "released"
       IN /\ innerReq' = [innerReq EXCEPT
                !.left = LeftAfter(adapter.kind, ev),
                !.readyState = IF adapter.kind = "transaction" THEN @ ELSE "Done",
                !.result = IF ev \in {"success", "upgradeneeded"} THEN Slot(v) ELSE @,
                !.error = IF ev = "error" /\ adapter.kind # "transaction"
                          THEN Slot(v) ELSE @]
          /\ adapter' = IF runs /\ adapter.kind = "transaction"
                        THEN [adapter EXCEPT !.state = OnEvent(@, ev)]
                        ELSE adapter
          /\ pollTask' = [pollTask EXCEPT
                !.woken = IF runs /\ ev # "upgradeneeded"
                          THEN @ \cup {closures[h].waker} ELSE @,
                !.fired = ev,
                !.threw = @ \/ throws]
    /\ UNCHANGED closures

---------------------------------------------------------------------------
(* The version casts on their own: the old version of an upgrade event, a  *)
(* host number (f64), is cast to u32 by cast_version in open's upgrade     *)
(* closure and by `as u32` in the closure of IdbOpenDbRequest::new.        *)

\* Bound of the host numbers: they reach up to (MaxHi + 1) * 2^30.
MaxHi == 4

\* A host number is sign * (hi * 2^30 + lo + half / 2), a u32 is hi * 2^30 + lo
\* with hi <= 3: the numbers of the model checker end below 2^31.
Base == 1073741824

\* u32::max_value(), 2^32 - 1.
U32Max == [hi |-> 3, lo |-> Base - 1]

\* The numbers cast: those of test_cast (0, 1, 10), of test_cast_too_big
\* (2^54 = 2^24 * 2^30), the ends of the range of u32 and their halves.
HostNumbers ==
    [neg : BOOLEAN, hi : (0..MaxHi) \cup {16777216}, lo : {0, 1, 10, Base - 1},
     half : BOOLEAN]

\* val < 0.0: negative zero is not.
BelowZero(val) == val.neg /\ (val.hi > 0 \/ val.lo > 0 \/ val.half)

\* val > u32::max_value() as f64.
AboveU32Max(val) ==
    /\ ~val.neg
    /\ \/ val.hi > U32Max.hi
       \/ val.hi = U32Max.hi /\ val.lo = U32Max.lo /\ val.half

\* `val as u32`: the fraction is cut off and the cast saturates, at 0 and at
\* u32::MAX.
AsU32(val) ==
    IF val.neg THEN [hi |-> 0, lo |-> 0]
    ELSE IF val.hi > U32Max.hi THEN U32Max
    ELSE [hi |-> val.hi, lo |-> val.lo]

NoCastResult == [tag |-> "none", hi |-> 0, lo |-> 0]
CastOk(n) == [tag |-> "Ok", hi |-> n.hi, lo |-> n.lo]
CastPanicked == [tag |-> "panicked", hi |-> 0, lo |-> 0]

\* Mutant of CastVersion: the range is not checked.
CastVersionUnchecked(val) == CastOk(AsU32(val))

\* cast_version: panic!("out of bounds") below 0 and above u32::MAX, else
\* `val as u32`.
CastVersion(val) ==
    IF BelowZero(val) \/ AboveU32Max(val) THEN CastPanicked ELSE CastOk(AsU32(val))

VARIABLES
    versionCast   \* an old version of an upgrade event and what the closure made of it

NoCast == [pc |-> "none", val |-> [neg |-> FALSE, hi |-> 0, lo |-> 0, half |-> FALSE],
           old_version |-> NoCastResult]

\* The upgrade closure of open: let old_version = cast_version(event.old_version()).
OpenOldVersion ==
    /\ versionCast.pc = "event"
    /\ versionCast' = [versionCast EXCEPT !.pc = "cast_version",
                                          !.old_version = CastVersion(versionCast.val)]

\* The upgrade closure of IdbOpenDbRequest::new:
\* let old_version = event.old_version() as u32.
NewOldVersion ==
    /\ versionCast.pc = "event"
    /\ versionCast' = [versionCast EXCEPT !.pc = "as_u32",
                                          !.old_version = CastOk(AsU32(versionCast.val))]

---------------------------------------------------------------------------
(* The specifications.                                                     *)

pureVars == <<keyPathTrip, versionCast>>

vars == <<txVars, openVars, pureVars, adapterVars>>

\* What the transaction model and the open model leave alone.
notTxVars == <<openVars, pureVars, adapterVars>>
notOpenVars == <<txVars, pureVars, adapterVars>>
notAdapterVars == <<txVars, openVars, pureVars>>

InitPure == keyPathTrip = NoTrip /\ versionCast = NoCast

Init == InitTx /\ InitOpen /\ InitPure /\ InitAdapterNone

\* The transaction model.
Next ==
    \/ \E mode \in Modes : Transaction(mode) /\ UNCHANGED notTxVars
    \/ \E t \in TxIds, k \in Keys, v \in Vals : Add(t, k, v) /\ UNCHANGED notTxVars
    \/ \E t \in TxIds, k \in Keys : Get(t, k) /\ UNCHANGED notTxVars
    \/ PollRequest /\ UNCHANGED notTxVars
    \/ DropRequest /\ UNCHANGED notTxVars
    \/ \E t \in TxIds : Done(t) /\ UNCHANGED notTxVars
    \/ PollTransaction /\ UNCHANGED notTxVars
    \/ \E r \in ReqIds : ServeGet(r) /\ UNCHANGED notTxVars
    \/ \E r \in ReqIds : ServeAdd(r) /\ UNCHANGED notTxVars
    \/ \E r \in ReqIds : ServeAddFails(r) /\ UNCHANGED notTxVars
    \/ \E t \in TxIds : EngineComplete(t) /\ UNCHANGED notTxVars
    \/ \E t \in TxIds : EngineFireAbort(t) /\ UNCHANGED notTxVars

Spec == Init /\ [][Next]_vars

\* The transaction model of a program that also calls abort(), whose body is
\* that of done().
NextAbort ==
    \/ Next
    \/ \E t \in TxIds : Abort(t) /\ UNCHANGED notTxVars

SpecAbort == Init /\ [][NextAbort]_vars

\* The open model.
NextOpen ==
    \/ \E name \in Names, version \in Versions, cb \in Callbacks :
            Open(name, version, cb) /\ UNCHANGED notOpenVars
    \/ EngineUpgradeNeeded /\ UNCHANGED notOpenVars
    \/ EngineOpenSuccess /\ UNCHANGED notOpenVars
    \/ EngineOpenError /\ UNCHANGED notOpenVars
    \/ PollOpen /\ UNCHANGED notOpenVars
    \/ \E h \in handles : DropDb(h) /\ UNCHANGED notOpenVars

SpecOpen == Init /\ [][NextOpen]_vars

\* The database model: a program that opens databases, creates transactions
\* on the handles it got and looks up their stores.
NextDb ==
    \/ \E name \in Names, version \in Versions, cb \in Callbacks :
            nOpens < MaxDbOpens /\ Open(name, version, cb) /\ UNCHANGED notOpenVars
    \/ EngineUpgradeNeeded /\ UNCHANGED notOpenVars
    \/ EngineOpenSuccess /\ UNCHANGED notOpenVars
    \/ EngineOpenError /\ UNCHANGED notOpenVars
    \/ PollOpen /\ UNCHANGED notOpenVars
    \/ \E h \in handles : DropDb(h) /\ UNCHANGED notOpenVars
    \/ \E h \in handles, mode \in Modes : DbTransaction(h, mode) /\ UNCHANGED notOpenVars
    \/ \E name \in StoreNames : TxObjectStore(name) /\ UNCHANGED notOpenVars
    \/ EngineFinishTx /\ UNCHANGED notOpenVars

SpecDb == Init /\ [][NextDb]_vars

\* The upgrade model: a program whose upgrade callbacks also delete stores.
NextUpgrade ==
    \/ \E name \in Names, version \in Versions, cb \in DeleteCallbacks :
            nOpens < MaxDbOpens /\ Open(name, version, cb) /\ UNCHANGED notOpenVars
    \/ EngineUpgradeNeeded /\ UNCHANGED notOpenVars
    \/ EngineOpenSuccess /\ UNCHANGED notOpenVars
    \/ EngineOpenError /\ UNCHANGED notOpenVars
    \/ PollOpen /\ UNCHANGED notOpenVars
    \/ \E h \in handles : DropDb(h) /\ UNCHANGED notOpenVars

SpecUpgrade == Init /\ [][NextUpgrade]_vars

\* The key-path model: every key path up to the bound makes the round trip.
InitKeyPath ==
    /\ InitTx
    /\ InitOpen
    /\ InitAdapterNone
    /\ keyPathTrip \in {[NoTrip EXCEPT !.pc = "key_path", !.key_path = kp] : kp \in KeyPaths}
    /\ versionCast = NoCast

NextKeyPath ==
    \/ KeyPathInto /\ UNCHANGED <<txVars, openVars, adapterVars, versionCast>>
    \/ KeyPathFrom /\ UNCHANGED <<txVars, openVars, adapterVars, versionCast>>

SpecKeyPath == InitKeyPath /\ [][NextKeyPath]_vars

\* The cast model: every host number of the model is the old version of an
\* upgrade event, in either closure.
InitCast ==
    /\ InitTx
    /\ InitOpen
    /\ InitAdapterNone
    /\ keyPathTrip = NoTrip
    /\ versionCast \in {[NoCast EXCEPT !.pc = "event", !.val = n] : n \in HostNumbers}

NextCast ==
    \/ OpenOldVersion /\ UNCHANGED <<txVars, openVars, adapterVars, keyPathTrip>>
    \/ NewOldVersion /\ UNCHANGED <<txVars, openVars, adapterVars, keyPathTrip>>

SpecCast == InitCast /\ [][NextCast]_vars

\* The adapter model: one adapter of each kind, polled from any context at
\* any time, dropped at any time, and the Engine firing its events.
InitAdapterModel == InitTx /\ InitOpen /\ InitPure /\ InitAdapter

NextAdapter ==
    \/ \E w \in Wakers : Poll(w) /\ UNCHANGED notAdapterVars
    \/ PollWoken /\ UNCHANGED notAdapterVars
    \/ SetOnFirst /\ UNCHANGED notAdapterVars
    \/ SetOnSecond /\ UNCHANGED notAdapterVars
    \/ DropAdapter /\ UNCHANGED notAdapterVars
    \/ \E ev \in AllEvents : \E v \in EventValues(adapter.kind, ev) :
            EngineFire(ev, v) /\ UNCHANGED notAdapterVars

SpecAdapter == InitAdapterModel /\ [][NextAdapter]_vars

\* The adapter model under the executor's guarantee: a task that was woken is
\* polled, and a poll that has started runs to its end.
SpecAdapterLive ==
    /\ SpecAdapter
    /\ WF_vars(PollWoken /\ UNCHANGED notAdapterVars)
    /\ WF_vars(SetOnFirst /\ UNCHANGED notAdapterVars)
    /\ WF_vars(SetOnSecond /\ UNCHANGED notAdapterVars)

---------------------------------------------------------------------------
(* Claims about transactions and store operations, checked under Spec.     *)

\* A get that the Engine served while its transaction was live has returned.
GetServed == lastGet.tx # 0 /\ lastGet.live

\* C1: a pair (k, v) that add submitted in a transaction whose done() returned
\* Ok(()) is read back: a get(k) the Engine serves in a Readonly transaction
\* created after that done() returns Ok(Some(v)).
C1_AddThenGet ==
    (GetServed /\ txn[lastGet.tx].mode = "Readonly") =>
        \A u \in okBefore[lastGet.tx] : \A kv \in addsOf[u] :
            kv[1] = lastGet.key => lastGet.res = OkSome(kv[2])

C1_Witness ==
    /\ GetServed
    /\ txn[lastGet.tx].mode = "Readonly"
    /\ \E u \in okBefore[lastGet.tx] : \E kv \in addsOf[u] :
            kv[1] = lastGet.key /\ lastGet.res = OkSome(kv[2])

\* C2: a get of a key that no add was ever submitted for, served while its
\* transaction is live, returns Ok(None): not an error, not a value.
C2_MissingKeyIsNone == (GetServed /\ ~lastGet.written) => lastGet.res = OkNone

C2_Witness == GetServed /\ ~lastGet.written /\ lastGet.res = OkNone

\* C3: the state of a live TransactionFuture, once it has left Pending, is not
\* changed by a later Engine event.
C3_AtMostOneTransition ==
    [][\A t \in TxIds :
        (txFuture[t].alive /\ txFuture[t].state # "Pending")
            => txFuture'[t].state = txFuture[t].state]_vars

\* C4: a done() that is awaited on a transaction the Engine has ended, with
\* every event of that transaction fired, has left Pending: otherwise nothing
\* is left to wake it and it never resolves.
C4_DoneResolves ==
    \A t \in TxIds :
        (txFuture[t].call = "done" /\ txFuture[t].alive /\ Finished(t)
            /\ t \notin abortQueued)
        => txFuture[t].state # "Pending"

C6_AbortReturnsErr ==
    \A t \in TxIds :
        txFuture[t].call = "abort" => txResult[t].tag \in {"none", "Err"}

\* C7: once abort() has returned for a transaction, a get served in a later
\* transaction does not see what that transaction added: for a key no other
\* transaction added, it returns Ok(None).
C7_AbortedWritesInvisible ==
    GetServed =>
        \A u \in abortedBefore[lastGet.tx] : \A kv \in addsOf[u] :
            (/\ kv[1] = lastGet.key
             /\ \A w \in TxIds \ {u} : \A other \in addsOf[w] : other[1] # kv[1])
            => lastGet.res = OkNone

\* C18: on a transaction that has finished (committed, also by auto-close, or
\* aborted) a get returns Err without reading, an add stores nothing, and
\* neither leaves a request with the Engine: the transaction, its writes and
\* the committed records stay as they are.
C18_FinishedTransactionFails ==
    [][\A t \in TxIds : Finished(t) =>
            /\ txn'[t] = txn[t]
            /\ addsOf'[t] = addsOf[t]
            /\ \A r \in ReqIds :
                    request[r].readyState = "none" => request'[r].tx # t
            /\ (lastGet'.tx = t /\ lastGet' # lastGet /\ task.pc = "idle") =>
                    lastGet'.res.tag = "Err" /\ store' = store
            /\ (task.pc = "idle" /\ task'.pc = "panicked") => store' = store]_vars

C18_Witness ==
    /\ lastGet.tx # 0
    /\ Finished(lastGet.tx)
    /\ lastGet.res = Err("TransactionInactiveError")
    /\ \E rec \in store : rec.key = ToJs(lastGet.key)

\* C19: no get and no add ends the program: an Engine error, thrown when the
\* operation is issued or delivered on the request, comes back as Err.
C19_EngineErrorIsErr ==
    /\ task.pc # "panicked"
    /\ (lastGet.tx # 0 /\ ~lastGet.live) => lastGet.res.tag = "Err"

\* C20: once the adapter of a pending request is dropped, the request has no
\* handler left that refers to the adapter's released closures.
C20_DropReleasesCallbacks ==
    \A r \in ReqIds :
        (request[r].readyState = "Pending" /\ ~request[r].hooked) => ~request[r].handler

\* C24: a get or add whose awaitable was dropped while its request was
\* pending is still served by the Engine as if it were awaited: the
\* transaction stays live, and the pair of an add under a free key is among
\* the transaction's writes, which its commit makes visible.
C24_DropDoesNotCancel ==
    [][\A r \in ReqIds :
        (/\ request[r].readyState = "Pending"
         /\ ~request[r].hooked
         /\ Servable(r)
         /\ ~HasKey(View(request[r].tx), request[r].key)
         /\ request'[r].readyState # "Pending")
        => /\ txn'[request[r].tx].status = "active"
           /\ request[r].kind = "add" =>
                [key |-> request[r].key, value |-> request[r].value]
                    \in txn'[request[r].tx].writes]_vars

---------------------------------------------------------------------------
(* Claims about open, checked under SpecOpen.                              *)

\* C8: an open call with version 0 panics before anything reaches the Engine:
\* no open request exists, no database and no connection changes.
C8_OpenZeroPanics ==
    [][(nOpens' = nOpens + 1 /\ lastOpen'.version = 0) =>
            /\ openTask'.pc = "panicked"
            /\ openReq' = NoOpenReq
            /\ dbs' = dbs
            /\ handles' = handles]_vars

C8_Witness == lastOpen.version = 0 /\ nOpens > 0 /\ openTask.pc = "panicked"

\* C9: an open(name, v, _) with v >= 1 that returns Ok(db) returns a handle
\* with db.version() = v and db.name() = name.
C9_OpenedVersion ==
    (lastOpen.version >= 1 /\ lastOpen.res.tag = "Ok") =>
        /\ lastOpen.res.version = lastOpen.version
        /\ lastOpen.res.name = lastOpen.name

C9_Witness ==
    /\ lastOpen.version = MaxVersion
    /\ lastOpen.res.tag = "Ok"
    /\ lastOpen.res.version = MaxVersion
    /\ lastOpen.stored = MaxVersion - 1

\* C10: the upgrade callback of an open(name, v, f) runs at most once, only
\* when the version stored for name at the call (0: no database) is below v,
\* and it is given that stored version; an open that returns Ok has run it
\* exactly when the stored version was below v.
C10_UpgradeCallback ==
    /\ Len(lastOpen.calls) <= 1
    /\ Len(lastOpen.calls) = 1 =>
            /\ lastOpen.stored < lastOpen.version
            /\ lastOpen.calls[1] = lastOpen.stored
    /\ lastOpen.res.tag = "Ok" =>
            (Len(lastOpen.calls) = 1 <=> lastOpen.stored < lastOpen.version)

C10_Witness ==
    /\ lastOpen.res.tag = "Ok"
    /\ lastOpen.stored = 1
    /\ lastOpen.version = MaxVersion
    /\ lastOpen.calls = <<1>>

\* C11: the upgrade callback of an open never runs once the open has returned;
\* what the open returned does not change afterwards; it returns Ok(database)
\* only after the Engine fired success at its request, and Err only after the
\* Engine fired error or rejected the call.
C11_CallbackBeforeSuccess ==
    /\ [][(lastOpen'.calls # lastOpen.calls /\ nOpens' = nOpens) =>
                lastOpen.res.tag = "none" /\ lastOpen'.res.tag = "none"]_vars
    /\ [][(lastOpen.res.tag # "none" /\ nOpens' = nOpens) =>
                lastOpen'.res = lastOpen.res]_vars
    /\ [](lastOpen.res.tag = "Ok" => lastOpen.fired = "success")
    /\ [](lastOpen.res.tag = "Err" =>
                (lastOpen.fired = "error" \/ lastOpen.res.name = "rejected"))

C11_Witness ==
    /\ lastOpen.res.tag = "Ok"
    /\ Len(lastOpen.calls) = 1
    /\ lastOpen.fired = "success"

\* C12: in an upgrade callback, create_object_store(n) for a name n that is
\* not in the inventory succeeds, store_exists(n) is true afterwards, and once
\* the open has returned Ok object_store_names() includes n; for a name that
\* is in the inventory it fails with the already-exists message, which
\* contains n, and the inventory is as before.
C12_CreateObjectStore ==
    \A i \in 1..Len(lastOpen.creates) :
        LET e == lastOpen.creates[i]
        IN /\ ~e.existed =>
                /\ e.ok
                /\ e.exists
                /\ lastOpen.res.tag = "Ok" =>
                        e.call.name \in ObjectStoreNames(dbs[lastOpen.name].stores)
           /\ e.existed =>
                /\ ~e.ok
                /\ e.err = AlreadyExistsMessage(e.call.name)
                /\ \E j \in 1..Len(e.err) : e.err[j] = e.call.name
                /\ e.after = e.before

C12_Witness ==
    /\ lastOpen.res.tag = "Ok"
    /\ Len(lastOpen.creates) = 2
    /\ lastOpen.creates[1].ok
    /\ ~lastOpen.creates[2].ok
    /\ lastOpen.creates[2].call.name = lastOpen.creates[1].call.name
    /\ lastOpen.creates[2].call.name \in ObjectStoreNames(dbs[lastOpen.name].stores)

\* C13: the store a successful create_object_store returns reports the key
\* path and the auto-increment flag the caller asked for.
C13_StoreParameters ==
    \A i \in 1..Len(lastOpen.creates) :
        LET e == lastOpen.creates[i]
        IN e.ok =>
            /\ e.key_path = e.call.key_path
            /\ e.auto_increment = e.call.auto_increment

---------------------------------------------------------------------------
(* Claims about deleting stores in an upgrade, checked under SpecUpgrade.  *)

\* C26: in an upgrade callback, delete() on the handle create_object_store
\* returned for a name succeeds and removes that store and no other:
\* store_exists(name) is false afterwards, every other store is still there,
\* and the next create_object_store(name) of the callback succeeds.
C26_DeleteStore ==
    \A i \in 1..Len(lastOpen.creates) :
        LET e == lastOpen.creates[i]
        IN e.call.op = "delete" =>
            /\ e.ok
            /\ e.call.name \in e.before
            /\ ~e.exists
            /\ e.after = e.before \ {e.call.name}
            /\ \A j \in (i + 1)..Len(lastOpen.creates) :
                    (/\ lastOpen.creates[j].call.name = e.call.name
                     /\ \A k \in (i + 1)..(j - 1) :
                            lastOpen.creates[k].call.name # e.call.name)
                    => lastOpen.creates[j].call.op = "create" /\ lastOpen.creates[j].ok

C26_Witness ==
    /\ lastOpen.res.tag = "Ok"
    /\ Len(lastOpen.creates) = 4
    /\ lastOpen.creates[3].call = Delete("test")
    /\ lastOpen.creates[3].before = {"contact", "test"}
    /\ lastOpen.creates[3].after = {"contact"}
    /\ lastOpen.creates[4].call.op = "create"
    /\ lastOpen.creates[4].ok
    /\ ObjectStoreNames(dbs[lastOpen.name].stores) = {"contact", "test"}

---------------------------------------------------------------------------
(* Claims about the handle of an opened database, checked under SpecDb.    *)

\* C14: the set of object-store names of a database changes only in a step
\* that runs the upgrade callback of the current open: transaction,
\* object_store and everything else outside the callback leave it as it is.
C14_InventoryFrame ==
    [][\A n \in Names :
        ObjectStoreNames(dbs'[n].stores) # ObjectStoreNames(dbs[n].stores) =>
            /\ nOpens' = nOpens
            /\ lastOpen.calls = <<>>
            /\ Len(lastOpen'.calls) = 1
            /\ n = lastOpen.name]_vars

C14_Witness ==
    /\ dbTx.status = "active"
    /\ dbTx.lookup.tag # "none"
    /\ \E i \in 1..Len(lastOpen.creates) : lastOpen.creates[i].ok
    /\ dbTx.db = lastOpen.name
    /\ ObjectStoreNames(dbs[dbTx.db].stores) = dbTx.names

\* C15 as stated: object_store(name) returns Err for every name outside the
\* transaction's scope and a handle with that name for every name inside it.
C15_ObjectStore ==
    dbTx.lookup.tag # "none" =>
        /\ dbTx.lookup.name \notin dbTx.scope => dbTx.lookup.tag = "Err"
        /\ dbTx.lookup.name \in dbTx.scope =>
                dbTx.lookup.tag = "Ok" /\ dbTx.lookup.v = dbTx.lookup.name

\* C15 as amended: object_store(name) returns Err for every name outside the
\* transaction's scope; for a name inside it, it returns a handle with that
\* name while the transaction has not finished and Err once it has; a call
\* that fails leaves the transaction as it was.
C15_ObjectStoreLive ==
    /\ [](dbTx.lookup.tag # "none" =>
            /\ dbTx.lookup.name \notin dbTx.scope => dbTx.lookup.tag = "Err"
            /\ (dbTx.lookup.name \in dbTx.scope /\ dbTx.lookup.live) =>
                    dbTx.lookup.tag = "Ok" /\ dbTx.lookup.v = dbTx.lookup.name
            /\ ~dbTx.lookup.live => dbTx.lookup.tag = "Err")
    /\ [][(dbTx'.lookup # dbTx.lookup /\ dbTx'.lookup.tag = "Err") =>
                /\ [dbTx' EXCEPT !.lookup = dbTx.lookup] = dbTx
                /\ dbs' = dbs]_vars

C15_Witness ==
    /\ dbTx.lookup.tag = "Err"
    /\ dbTx.lookup.live
    /\ dbTx.lookup.name \notin dbTx.scope
    /\ dbTx.scope # {}

\* C16: a transaction that transaction(mode) created spans exactly the stores
\* object_store_names() listed when it was called, in either mode.
C16_TransactionScope ==
    dbTx.status = "active" =>
        /\ dbTx.scope = dbTx.names
        /\ dbTx.mode \in Modes

C16_Witness ==
    /\ dbTx.status = "active"
    /\ dbTx.mode = "ReadWrite"
    /\ dbTx.scope = StoreNames

\* C17: when the Engine rejects open or the creation of a transaction, the
\* caller gets an Err and the program goes on.
C17_RejectionIsErr ==
    /\ lastOpen.res.name = "rejected" =>
            lastOpen.res.tag = "Err" /\ openTask.pc # "panicked"
    /\ dbTx.status = "rejected" => openTask.pc # "panicked"

---------------------------------------------------------------------------
(* Claims about the KeyPath conversions, checked under SpecKeyPath.        *)

\* C21: a key path that was converted to the host value and back is the key
\* path it was, for None, every Single and every Multi; the host value keeps
\* Single(p) and Multi([p]) apart, and so does the key path read back.
C21_KeyPathRoundTrip ==
    /\ keyPathTrip.pc = "back" => keyPathTrip.back = keyPathTrip.key_path
    /\ keyPathTrip.pc \in {"val", "back"} =>
            \A p \in Paths :
                /\ keyPathTrip.key_path = KeyPathSingle(p) =>
                        keyPathTrip.val # KeyPathIntoJs(KeyPathMulti(<<p>>))
                /\ keyPathTrip.key_path = KeyPathMulti(<<p>>) =>
                        keyPathTrip.val # KeyPathIntoJs(KeyPathSingle(p))

C21_Witness ==
    /\ keyPathTrip.pc = "back"
    /\ keyPathTrip.key_path = KeyPathMulti(<<"a">>)
    /\ keyPathTrip.back = KeyPathMulti(<<"a">>)
    /\ keyPathTrip.back # KeyPathSingle("a")

---------------------------------------------------------------------------
(* Claims about the adapters, checked under SpecAdapter.                   *)

\* The adapter is an IndexedDbRequest or an IdbOpenDbRequest.
RequestKind == adapter.kind \in {"request", "open"}

\* The step is a poll that starts.
PollStarts ==
    /\ adapter.alive
    /\ adapter.pc = "idle"
    /\ adapter'.polls # adapter.polls \/ pollTask'.ret # pollTask.ret

\* The step is the Engine firing success or error.
Settles ==
    /\ innerReq'.left # innerReq.left
    /\ pollTask'.fired \in {"success", "error"}

\* C22: a poll of a request adapter that finds the request Pending registers
\* a success and an error callback and returns Pending; a poll that finds it
\* Done returns Ok(result) when the request has a result and Err(error) when
\* it has none; Ok is never returned for a failed request, Err never for one
\* that succeeded; Done with neither result nor error ends the program.
C22_PollContract ==
    /\ [][(RequestKind /\ PollStarts) =>
            /\ innerReq.readyState = "Pending" =>
                    adapter'.pc = "first" /\ pollTask'.ret = "none"
            /\ innerReq.readyState = "Done" =>
                    /\ innerReq.result.has =>
                            pollTask'.ret = "Ok" /\ pollTask'.v = innerReq.result.v
                    /\ ~innerReq.result.has =>
                            pollTask'.ret = "Err" /\ pollTask'.v = innerReq.error.v]_vars
    /\ [][(RequestKind /\ pollTask'.ret = "Pending" /\ pollTask.ret # "Pending") =>
            /\ innerReq'.readyState = "Pending"
            /\ \A e \in {"success", "error"} :
                    /\ adapter'.slot[e] # 0
                    /\ closures'[adapter'.slot[e]].state = "live"
                    /\ innerReq'.on[e] = adapter'.slot[e]]_vars
    /\ [](RequestKind /\ pollTask.ret = "Ok" => innerReq.result.has /\ ~innerReq.error.has)
    /\ [](RequestKind /\ pollTask.ret = "Err" => innerReq.error.has /\ ~innerReq.result.has)
    /\ [](PollDone([NoInner EXCEPT !.readyState = "Done"]).ret = "panicked")

C22_Witness ==
    /\ adapter.kind = "open"
    /\ adapter.polls >= 1
    /\ pollTask.ret = "Err"
    /\ pollTask.v = "VersionError"

\* C23: after any number of polls of a request adapter that is still pending,
\* the adapter holds one success and one error callback, the callbacks of the
\* earlier polls are released, the Engine's handlers are the callbacks held,
\* and they wake the context of the latest poll: that context is woken when
\* the Engine settles the request.
C23_RepeatedPoll ==
    /\ [](RequestKind /\ adapter.alive /\ adapter.pc = "idle" /\ adapter.polls >= 1 =>
            LET held == {adapter.slot["success"], adapter.slot["error"]}
                mine == {c \in ClosureIds : closures[c].waker # 0}
            IN /\ 0 \notin held
               /\ Cardinality(held) = 2
               /\ {c \in mine : closures[c].state = "live"} = held
               /\ Cardinality({c \in mine : closures[c].state = "released"})
                        = 2 * (adapter.polls - 1)
               /\ \A e \in {"success", "error"} :
                    /\ innerReq.on[e] = adapter.slot[e]
                    /\ closures[adapter.slot[e]].waker = pollTask.cx)
    /\ [][(RequestKind /\ adapter.alive /\ adapter.polls >= 1 /\ Settles) =>
            pollTask'.woken = pollTask.woken \cup {pollTask.cx}]_vars

C23_Witness ==
    /\ adapter.kind = "request"
    /\ adapter.alive
    /\ adapter.pc = "idle"
    /\ adapter.polls = 2
    /\ innerReq.readyState = "Pending"
    /\ pollTask.cx = 2
    /\ closures[adapter.slot["success"]].waker = 2
    /\ closures[1].state = "released" /\ closures[1].waker = 1

\* C28: while an adapter is alive, every handler set on the Engine's object
\* is a live closure: the one stored in the adapter's slot for that event, or,
\* between the two statements of a setter, the one about to be stored there.
\* The Engine never holds a handler whose closure was released.
C28_HandlersAreStored ==
    adapter.alive =>
        \A ev \in AllEvents :
            LET h == innerReq.on[ev]
            IN h # 0 =>
                /\ closures[h].state = "live"
                /\ \/ h = adapter.slot[ev]
                   \/ /\ adapter.pc = "second"
                      /\ ev = Registered(adapter.kind)[adapter.at]
                      /\ h = adapter.fresh

C28_Witness ==
    /\ adapter.kind = "transaction"
    /\ adapter.alive
    /\ adapter.pc = "second"
    /\ adapter.polls = 2
    /\ adapter.at = 2
    /\ innerReq.on["error"] = adapter.fresh
    /\ adapter.slot["error"] # adapter.fresh
    /\ closures[adapter.slot["error"]].state = "live"

---------------------------------------------------------------------------
(* Claims about the adapters, checked under SpecAdapterLive.               *)

\* C27: a request adapter that was polled, whose request the Engine has
\* settled with success or error, before or after that poll, is in the end
\* polled to Ready unless it is dropped; and Ready carries the outcome of the
\* request.
C27_NoLostWakeup ==
    /\ (RequestKind /\ pollTask.cx # 0 /\ innerReq.readyState = "Done"
            /\ innerReq.left = {})
        ~> (pollTask.ret \in {"Ok", "Err"} \/ ~adapter.alive)
    /\ [](RequestKind /\ adapter.alive /\ pollTask.cx # 0 /\ adapter.pc = "idle"
            /\ innerReq.readyState = "Done" /\ innerReq.left = {}
            => pollTask.woken # {})
    /\ [](RequestKind /\ pollTask.ret \in {"Ok", "Err"} =>
            pollTask.v = IF innerReq.result.has THEN innerReq.result.v
                         ELSE innerReq.error.v)

C27_Witness ==
    /\ adapter.kind = "request"
    /\ adapter.polls = 1
    /\ pollTask.fired = "error"
    /\ pollTask.ret = "Err"
    /\ pollTask.v = "ConstraintError"
    /\ ~pollTask.threw

---------------------------------------------------------------------------
(* Claims about the version casts, checked under SpecCast.                 *)

Integral(val) == ~val.half

\* 1 <= val and val < 2^32.
FromOneBelowTwo32(val) ==
    /\ ~val.neg
    /\ val.hi > 0 \/ val.lo >= 1
    /\ val.hi <= U32Max.hi

\* 0 <= val and val < 2^32.
FromZeroBelowTwo32(val) ==
    /\ ~BelowZero(val)
    /\ val.hi <= U32Max.hi

Unchanged(val, res) == res.hi = val.hi /\ res.lo = val.lo

=============================================================================
